---------------------------- MODULE Spec2Model ----------------------------
(***************************************************************************)
(* Colorful Folder Tabs: the plugin (FolderColorPlugin) and its settings   *)
(* form (FolderColorSettingTab) as a state machine over                    *)
(*   - the settings object and the stored record,                          *)
(*   - the file explorer containers and folder nodes of the host's DOM,    *)
(*   - the workspace-level and per-container MutationObservers,            *)
(*   - the handlers of the form and of the toggle command that are         *)
(*     suspended at `await saveData(...)`.                                 *)
(* The plugin is src/unnamed/part_001 (it imports ./settings-tab and       *)
(* ./types); the form is the first class of src/unnamed/part_000.          *)
(***************************************************************************)
EXTENDS Integers, Sequences, FiniteSets, TLC

(***************************************************************************)
(* Bounds of the model.                                                    *)
(***************************************************************************)
\* longest mapping list the form is allowed to build
MaxMappings == 2
\* number of user actions (form edits, toggles) in a run
MaxUserOps == 2
\* number of mutations of the explorer tree by the host in a run
MaxHostOps == 2
\* user actions and host mutations in a run, together
MaxOps == 3
\* handlers suspended at their save at the same time
MaxInFlight == 2

(***************************************************************************)
(* Text.  A string is a sequence of one-character strings, so that trim()  *)
(* and parseInt() are computed and case is kept.                           *)
(***************************************************************************)
Projects == <<"P", "r", "o", "j", "e", "c", "t", "s">>
Design == <<"D", "e", "s", "i", "g", "n">>
designLower == <<"d", "e", "s", "i", "g", "n">>
DesignPadded == <<" ">> \o Design \o <<" ">>
NewFolder == <<"N", "e", "w", " ", "F", "o", "l", "d", "e", "r">>
Empty == << >>

WhiteSpace == {" ", "\t", "\n"}

RECURSIVE TrimStart(_)
TrimStart(s) ==
    IF s # << >> /\ Head(s) \in WhiteSpace THEN TrimStart(Tail(s)) ELSE s

RECURSIVE TrimEnd(_)
TrimEnd(s) ==
    IF s # << >> /\ s[Len(s)] \in WhiteSpace
        THEN TrimEnd(SubSeq(s, 1, Len(s) - 1))
        ELSE s

\* String.prototype.trim
Trim(s) == TrimEnd(TrimStart(s))

Digits == <<"0", "1", "2", "3", "4", "5", "6", "7", "8", "9">>
IsDigit(ch) == \E i \in 1..10 : Digits[i] = ch
DigitValue(ch) == (CHOOSE i \in 1..10 : Digits[i] = ch) - 1

RECURSIVE ParseDigits(_, _)
ParseDigits(s, acc) ==
    IF s # << >> /\ IsDigit(Head(s))
        THEN ParseDigits(Tail(s), acc * 10 + DigitValue(Head(s)))
        ELSE acc

\* An optional value (undefined, or a value) is the empty set or a singleton.
Undefined == {}
Some(v) == {v}
The(o) == CHOOSE v \in o : TRUE
\* a ?? d
\* (variant with a slip: the fallback is taken whatever a is)
OrElseFallback(o, d) == d

OrElse(o, d) == IF o = Undefined THEN d ELSE The(o)
\* the truthiness of an optional boolean
Truthy(o) == o = Some(TRUE)

\* parseInt(v) followed by isNaN(val) ? undefined : val, for unsigned input:
\* leading white space is skipped, the leading digits are read, NaN without one
ParseWeight(v) ==
    LET t == TrimStart(v)
    IN  IF t # << >> /\ IsDigit(Head(t)) THEN Some(ParseDigits(t, 0)) ELSE Undefined

(***************************************************************************)
(* Settings.                                                               *)
(***************************************************************************)
None == "none"
Red == "#e74c3c"
Blue == "#3498db"
Grey == "#888888"
White == "#ffffff"
Black == "#000000"

Mapping(n, c, t, u) == [name |-> n, color |-> c, textColor |-> t, useTextColor |-> u]

DEFAULT_SETTINGS ==
    [ enabled |-> TRUE,
      mainFolderFontWeight |-> Some(700),
      subFolderFontWeight |-> Some(500),
      mappings |-> << Mapping(Projects, Red, White, Some(TRUE)),
                      Mapping(Design, Blue, White, Some(TRUE)) >>,
      showDot |-> TRUE ]

\* the mapping pushed by "+ Add"
NewMapping == Mapping(NewFolder, Grey, White, Some(FALSE))

\* Object.assign({}, DEFAULT_SETTINGS, data): every own field of data wins
\* (variant with a slip: the arguments in the other order, the defaults win)
MergeDefaultsWin(defaults, data) ==
    [f \in (DOMAIN defaults) \cup (DOMAIN data) |->
        IF f \in DOMAIN defaults THEN defaults[f] ELSE data[f]]

Merge(defaults, data) ==
    [f \in (DOMAIN defaults) \cup (DOMAIN data) |->
        IF f \in DOMAIN data THEN data[f] ELSE defaults[f]]

\* JSON.stringify(settings), as saveData writes it: a field whose value is
\* undefined is left out (the weights are the fields that can be)
OptionalFields == {"mainFolderFontWeight", "subFolderFontWeight"}

Json(s) ==
    [f \in {g \in DOMAIN s : ~(g \in OptionalFields /\ s[g] = Undefined)} |-> s[f]]

\* no data file: loadData() resolves to null, which Object.assign skips
NoData == << >>

\* the records the data file may hold when the plugin loads
StoredRecords ==
    { NoData,
      [enabled |-> FALSE, mainFolderFontWeight |-> Some(600),
       mappings |-> << Mapping(Design, Blue, White, Some(TRUE)) >>],
      [mappings |-> << >>, showDot |-> FALSE, theme |-> "dark"],
      [mappings |-> << Mapping(Design, Red, Black, Undefined),
                       Mapping(Design, Blue, White, Some(TRUE)) >>] }

(***************************************************************************)
(* The host's DOM.  An explorer container is                               *)
(* .workspace-leaf-content[data-type="file-explorer"]; inDoc says that it  *)
(* is attached below .workspace, hasFC that it holds a                     *)
(* .nav-files-container.  A folder node is a .tree-item.nav-folder with    *)
(* its .nav-folder-title; kind k of container c is the folder whose title  *)
(* text is KindSeq[k].text.  The attributes of a node are the four the     *)
(* plugin writes: --tab-color and fc-colored-folder on the folder item,    *)
(* --text-color and fc-dot-enabled on the title.                           *)
(***************************************************************************)
Containers == {"e1", "e2"}

KindSeq ==
    << [text |-> Projects, top |-> TRUE],
       [text |-> DesignPadded, top |-> FALSE],
       [text |-> designLower, top |-> TRUE] >>
Kinds == DOMAIN KindSeq

NoNode ==
    [present |-> FALSE, tabColor |-> None, coloredFolder |-> FALSE,
     textColor |-> None, dotEnabled |-> FALSE]
CleanNode == [NoNode EXCEPT !.present = TRUE]

\* titleEl.textContent
TextContent(k) == KindSeq[k].text

\* document.querySelectorAll('.workspace-leaf-content[data-type="file-explorer"]')
OpenExplorers(W) == {c \in Containers : W.ex[c].inDoc}

(***************************************************************************)
(* The plugin.  W is the world the plugin acts on: ex and nodes (the DOM), *)
(* rootStyle (the two custom properties on document.documentElement),      *)
(* observer (this.observer is not null), explorerObservers (the keys of    *)
(* the map), wsLive / expLive (how many connected observers watch          *)
(* .workspace / the folder list of a container), wsPending / expPending    *)
(* (the mutation records queued for them and not yet delivered).           *)
(***************************************************************************)

\* mappings.find(m => m.name === text), as the index found, 0 for undefined
\* (variant with a slip: the last mapping of the name is taken)
FindLast(mappings, text) ==
    LET hits == {i \in 1..Len(mappings) : mappings[i].name = text}
    IN  IF hits = {} THEN 0 ELSE CHOOSE i \in hits : \A j \in hits : j <= i

Find(mappings, text) ==
    LET hits == {i \in 1..Len(mappings) : mappings[i].name = text}
    IN  IF hits = {} THEN 0 ELSE CHOOSE i \in hits : \A j \in hits : i <= j

\* the text the title is matched by: titleEl.textContent?.trim() || ''
\* (variant with a slip: the text is compared as it is, untrimmed)
MatchTextUntrimmed(k) == TextContent(k)

MatchText(k) == Trim(TextContent(k))

\* the body of folderTitles.forEach in applyMappingsToDOM, for one title
\* (variant with a slip: a text colour set earlier is kept when useTextColor
\* is not true)
StyleTitleKeepText(n, k, s) ==
    LET i == Find(s.mappings, MatchText(k))
    IN  IF i # 0
            THEN [n EXCEPT !.tabColor = s.mappings[i].color,
                           !.textColor = IF Truthy(s.mappings[i].useTextColor)
                                             THEN s.mappings[i].textColor
                                             ELSE @,
                           !.coloredFolder = TRUE,
                           !.dotEnabled = IF s.showDot THEN TRUE ELSE @]
            ELSE [n EXCEPT !.tabColor = None, !.textColor = None,
                           !.coloredFolder = FALSE, !.dotEnabled = FALSE]

StyleTitle(n, k, s) ==
    LET i == Find(s.mappings, MatchText(k))
    IN  IF i # 0
            THEN [n EXCEPT !.tabColor = s.mappings[i].color,
                           !.textColor = IF Truthy(s.mappings[i].useTextColor)
                                             THEN s.mappings[i].textColor
                                             ELSE None,
                           !.coloredFolder = TRUE,
                           !.dotEnabled = IF s.showDot THEN TRUE ELSE @]
            ELSE [n EXCEPT !.tabColor = None, !.textColor = None,
                           !.coloredFolder = FALSE, !.dotEnabled = FALSE]

\* applyMappingsToDOM(container): nothing when the list is empty, else every
\* title below the container (attached to the document or not)
applyMappingsToDOM(W, c, s) ==
    IF Len(s.mappings) = 0
        THEN W
        ELSE [W EXCEPT !.nodes[c] =
                 [k \in Kinds |-> IF @[k].present THEN StyleTitle(@[k], k, s) ELSE @[k]]]

RECURSIVE MappingsOfEach(_, _, _)
\* explorers.forEach(explorer => this.applyMappingsToDOM(explorer)), in any
\* order: the calls touch different containers
MappingsOfEach(W, cs, s) ==
    IF cs = {}
        THEN W
        ELSE LET c == CHOOSE x \in cs : TRUE
             IN  MappingsOfEach(applyMappingsToDOM(W, c, s), cs \ {c}, s)

applyMappingsToAllExplorers(W, s) ==
    MappingsOfEach(W, OpenExplorers(W), s)

\* the dot class of every title of one open explorer
\* (variant with a slip: classList.toggle for classList.add)
StructuralToggle(W, c, s) ==
    [W EXCEPT !.nodes[c] =
        [k \in Kinds |-> IF @[k].present
                            THEN [@[k] EXCEPT !.dotEnabled = IF s.showDot THEN ~@ ELSE FALSE]
                            ELSE @[k]]]

StructuralOfExplorer(W, c, s) ==
    [W EXCEPT !.nodes[c] =
        [k \in Kinds |-> IF @[k].present
                            THEN [@[k] EXCEPT !.dotEnabled = s.showDot]
                            ELSE @[k]]]

RECURSIVE StructuralOfEach(_, _, _)
\* explorers.forEach(explorer => ...) of applyStructuralStyles
StructuralOfEach(W, cs, s) ==
    IF cs = {}
        THEN W
        ELSE LET c == CHOOSE x \in cs : TRUE
             IN  StructuralOfEach(StructuralOfExplorer(W, c, s), cs \ {c}, s)

applyStructuralStyles(W, s) ==
    StructuralOfEach(W, OpenExplorers(W), s)

\* observeExplorerContainer(container)
\* (variant with a slip: the folder list is not looked for)
observeUnguarded(W, c, s) ==
    IF c \in W.explorerObservers
        THEN W
        ELSE [W EXCEPT !.explorerObservers = @ \cup {c}, !.expLive[c] = @ + 1]

observeExplorerContainer(W, c, s) ==
    IF c \in W.explorerObservers
        THEN W
        ELSE IF ~W.ex[c].hasFC
            THEN W
            ELSE [W EXCEPT !.explorerObservers = @ \cup {c}, !.expLive[c] = @ + 1]

RECURSIVE ObserveEach(_, _, _)
\* explorers.forEach(explorer => this.observeExplorerContainer(explorer))
ObserveEach(W, cs, s) ==
    IF cs = {}
        THEN W
        ELSE LET c == CHOOSE x \in cs : TRUE
             IN  ObserveEach(observeExplorerContainer(W, c, s), cs \ {c}, s)

\* setupObserversForExplorers(): .workspace is in the document whenever the
\* plugin runs, so the new observer is connected; the records queued for
\* the observer that is disconnected are dropped with it
\* (variant with a slip: the previous workspace observer is not disconnected)
setupKeepsOldObserver(W, s) ==
    ObserveEach([W EXCEPT !.observer = TRUE,
                          !.wsLive = @ + 1],
                OpenExplorers(W), s)

setupObserversForExplorers(W, s) ==
    ObserveEach([W EXCEPT !.observer = TRUE,
                          !.wsLive = (IF W.observer THEN @ - 1 ELSE @) + 1,
                          !.wsPending = {}],
                OpenExplorers(W), s)

\* applyAllStyles()
applyAllStyles(W, s) ==
    setupObserversForExplorers(
        applyMappingsToAllExplorers(
            applyStructuralStyles(
                [W EXCEPT !.rootStyle =
                    [main |-> Some(OrElse(s.mainFolderFontWeight, 700)),
                     sub |-> Some(OrElse(s.subFolderFontWeight, 500))]],
                s),
            s),
        s)

\* what removeStyles() does to one element pair found by
\* document.querySelectorAll('.tree-item.nav-folder, .nav-folder-title')
\* (variant with a slip: fc-colored-folder is left on the element)
ClearKeepsClass(n) == [n EXCEPT !.tabColor = None, !.textColor = None, !.dotEnabled = FALSE]

\* (variant with a slip: the element is taken out of the tree)
ClearDetaches(n) == NoNode

ClearNode(n) ==
    [n EXCEPT !.tabColor = None, !.textColor = None,
              !.dotEnabled = FALSE, !.coloredFolder = FALSE]

\* removeStyles()
\* (variant with a slip: the observers in the map are not disconnected)
removeKeepsSubscriptions(W) ==
    [W EXCEPT
        !.nodes = [c \in Containers |->
                      IF W.ex[c].inDoc
                          THEN [k \in Kinds |-> IF @[c][k].present THEN ClearNode(@[c][k]) ELSE @[c][k]]
                          ELSE @[c]],
        !.observer = FALSE,
        !.wsLive = IF W.observer THEN @ - 1 ELSE @,
        !.wsPending = {},
        !.explorerObservers = {}]

removeStyles(W) ==
    [W EXCEPT
        !.nodes = [c \in Containers |->
                      IF W.ex[c].inDoc
                          THEN [k \in Kinds |-> IF @[c][k].present THEN ClearNode(@[c][k]) ELSE @[c][k]]
                          ELSE @[c]],
        !.observer = FALSE,
        !.wsLive = IF W.observer THEN @ - 1 ELSE @,
        !.wsPending = {},
        !.expLive = [c \in Containers |-> IF c \in W.explorerObservers THEN @[c] - 1 ELSE @[c]],
        !.explorerObservers = {},
        !.expPending = {}]

RECURSIVE AddedEach(_, _, _)
\* for (const node of m.addedNodes): an added explorer container has the
\* mappings applied and is observed
AddedEach(W, cs, s) ==
    IF cs = {}
        THEN W
        ELSE LET c == CHOOSE x \in cs : TRUE
             IN  AddedEach(observeExplorerContainer(applyMappingsToDOM(W, c, s), c, s),
                           cs \ {c}, s)

\* the callback of the workspace-level observer, for the records queued:
\* every added node that is itself an explorer container
workspaceCallback(W, s) ==
    AddedEach([W EXCEPT !.wsPending = {}], W.wsPending \cap Containers, s)

\* the callback of the observer of container c
\* (variant with a slip: the callback re-applies the dot class only)
innerCallbackDotOnly(W, c, s) ==
    StructuralOfExplorer([W EXCEPT !.expPending = @ \ {c}], c, s)

\* (variant with a slip: styling the nodes counts as a mutation of the
\* folder list, the record for the observer stays queued)
innerCallbackRequeues(W, c, s) == applyMappingsToDOM(W, c, s)

innerCallback(W, c, s) ==
    applyMappingsToDOM([W EXCEPT !.expPending = @ \ {c}], c, s)

(***************************************************************************)
(* State.                                                                  *)
(***************************************************************************)
VARIABLES
    settings,           \* this.settings
    stored,             \* the record in the host's data file
    phase,              \* "loaded" (onload done), "ready", "unloaded"
    ex,                 \* the explorer containers
    nodes,              \* the folder nodes and their attributes
    rootStyle,          \* --fc-main-folder-weight, --fc-sub-folder-weight
    observer,           \* this.observer # null
    wsLive,             \* connected observers of .workspace
    wsPending,          \* records queued for the workspace-level observer
    explorerObservers,  \* the containers that are keys of this.explorerObservers
    expLive,            \* connected observers of each container's folder list
    expPending,         \* containers with records queued for their observer
    inflight,           \* the handlers suspended at await saveData(...)
    form,               \* what the settings form shows since its last display()
    userOps,            \* user actions so far
    hostOps,            \* host mutations so far
    burst,              \* the run of notifications under way, and its re-runs
    last                \* the plugin call the last step ended with

vars ==
    << settings, stored, phase, ex, nodes, rootStyle, observer, wsLive, wsPending,
       explorerObservers, expLive, expPending, inflight, form, userOps, hostOps,
       burst, last >>

World ==
    [ex |-> ex, nodes |-> nodes, rootStyle |-> rootStyle, observer |-> observer,
     wsLive |-> wsLive, wsPending |-> wsPending,
     explorerObservers |-> explorerObservers, expLive |-> expLive,
     expPending |-> expPending]

SetWorld(W) ==
    /\ ex' = W.ex
    /\ nodes' = W.nodes
    /\ rootStyle' = W.rootStyle
    /\ observer' = W.observer
    /\ wsLive' = W.wsLive
    /\ wsPending' = W.wsPending
    /\ explorerObservers' = W.explorerObservers
    /\ expLive' = W.expLive
    /\ expPending' = W.expPending

worldVars ==
    << ex, nodes, rootStyle, observer, wsLive, wsPending,
       explorerObservers, expLive, expPending >>

ClosedForm == [open |-> FALSE, enabledView |-> FALSE, enabledUI |-> FALSE,
               dotUI |-> FALSE, rows |-> << >>]

\* display(): the weight fields and the enable toggle always; the dot toggle,
\* the rows and "+ Add" only when enabled.  rows[i] is the state of the
\* checkbox of row i: toggle.checked = m.useTextColor ?? true
Display(s) ==
    [open |-> TRUE,
     enabledView |-> s.enabled,
     enabledUI |-> s.enabled,
     dotUI |-> IF s.enabled THEN s.showDot ELSE FALSE,
     rows |-> IF s.enabled
                  THEN [i \in 1..Len(s.mappings) |-> OrElse(s.mappings[i].useTextColor, TRUE)]
                  ELSE << >>]

\* what the user may type or pick in the form
WeightInputs == { <<"6", "0", "0">>, << >> }
NameInputs == { DesignPadded, Empty }
ColorInputs == { Blue }
TextColorInputs == { Black }

\* A burst is a run of notifications to the observer of one container's
\* folder list, delivered in consecutive tasks of the host: no task of the
\* user and no completion of a save comes between them.  burst.c is the
\* container, burst.runs the number of times the observer's callback has
\* re-applied the mappings since the burst began.
NoBurst == [c |-> "none", runs |-> 0]

\* the host has mutated the folder list of container c
BurstNotified(c) ==
    IF expLive[c] = 0
        THEN burst
        ELSE IF burst.c = c THEN burst ELSE [c |-> c, runs |-> 0]

\* the callback of the observer of container c has run
BurstRerun(c) ==
    IF burst.c = c THEN [burst EXCEPT !.runs = @ + 1] ELSE burst

TypeOK ==
    /\ phase \in {"loaded", "ready", "unloaded"}
    /\ settings.enabled \in BOOLEAN /\ settings.showDot \in BOOLEAN
    /\ Len(settings.mappings) <= MaxMappings
    /\ observer \in BOOLEAN
    /\ wsPending \subseteq Containers \cup {"other"}
    /\ explorerObservers \subseteq Containers
    /\ expPending \subseteq Containers
    /\ Len(inflight) <= MaxInFlight
    /\ userOps \in 0..MaxUserOps /\ hostOps \in 0..MaxHostOps
    /\ burst.c \in Containers \cup {"none"} /\ burst.runs \in 0..MaxHostOps

(***************************************************************************)
(* onload() up to the end of its await: the settings are the stored record *)
(* merged over the defaults.  One explorer is open, with the folders       *)
(* " Design " and "design".                                                *)
(***************************************************************************)
Init ==
    /\ stored \in StoredRecords
    /\ settings = Merge(DEFAULT_SETTINGS, stored)
    /\ phase = "loaded"
    /\ ex = [c \in Containers |-> [inDoc |-> c = "e1", hasFC |-> c = "e1"]]
    /\ nodes = [c \in Containers |->
                   [k \in Kinds |-> IF c = "e1" /\ k \in {2, 3} THEN CleanNode ELSE NoNode]]
    /\ rootStyle = [main |-> Undefined, sub |-> Undefined]
    /\ observer = FALSE
    /\ wsLive = 0
    /\ wsPending = {}
    /\ explorerObservers = {}
    /\ expLive = [c \in Containers |-> 0]
    /\ expPending = {}
    /\ inflight = << >>
    /\ form = ClosedForm
    /\ userOps = 0
    /\ hostOps = 0
    /\ burst = NoBurst
    /\ last = "onload"

(***************************************************************************)
(* Scheduling.  Everything runs on the one event loop of the host.  The    *)
(* callbacks of MutationObservers are microtasks: they run when the task   *)
(* that queued their records ends, before any other task (a user event,   *)
(* the completion of a save, the host's next mutation) starts.             *)
(***************************************************************************)
TaskMayStart == wsPending = {} /\ expPending = {}

\* the run may take one more user action or host mutation
OpsLeft == userOps + hostOps < MaxOps

(***************************************************************************)
(* The plugin's own steps.                                                 *)
(***************************************************************************)

\* app.workspace.onLayoutReady(() => { if (enabled) applyAllStyles() })
LayoutReady ==
    /\ TaskMayStart
    /\ phase = "loaded"
    /\ phase' = "ready"
    /\ IF settings.enabled
           THEN SetWorld(applyAllStyles(World, settings)) /\ last' = "applyAllStyles"
           ELSE UNCHANGED worldVars /\ last' = "none"
    /\ burst' = NoBurst
    /\ UNCHANGED << settings, stored, inflight, form, userOps, hostOps >>

\* onunload(): the settings tab goes with the plugin
Unload ==
    /\ TaskMayStart
    /\ phase = "ready"
    /\ phase' = "unloaded"
    /\ SetWorld(removeStyles(World))
    /\ last' = "removeStyles"
    /\ form' = ClosedForm
    /\ burst' = NoBurst
    /\ UNCHANGED << settings, stored, inflight, userOps, hostOps >>

\* A handler up to its `await this.plugin.saveData(this.plugin.settings)`:
\* the settings are mutated in place, the save is issued with the settings
\* as they are now, and the rest of the handler (then: what it calls,
\* display: whether it re-renders the form) waits for the save.
Suspend(s, f, then, display) ==
    /\ TaskMayStart
    /\ phase = "ready"
    /\ userOps < MaxUserOps /\ OpsLeft
    /\ Len(inflight) < MaxInFlight
    /\ settings' = s
    /\ form' = f
    /\ inflight' = Append(inflight, [then |-> then, display |-> display, data |-> s])
    /\ userOps' = userOps + 1
    /\ last' = "none"
    /\ burst' = NoBurst
    /\ UNCHANGED << stored, phase, hostOps >>
    /\ UNCHANGED worldVars

\* the save of handler i completes and the handler goes on
Resume(i) ==
    /\ TaskMayStart
    /\ i \in 1..Len(inflight)
    /\ LET h == inflight[i]
           call == IF h.then = "cmd"
                       THEN (IF settings.enabled THEN "applyAllStyles" ELSE "removeStyles")
                       ELSE h.then
       IN  /\ stored' = Json(h.data)
           /\ IF call = "applyAllStyles"
                  THEN SetWorld(applyAllStyles(World, settings))
                  ELSE SetWorld(removeStyles(World))
           /\ last' = call
           /\ form' = IF h.display /\ form.open THEN Display(settings) ELSE form
    /\ inflight' = [j \in 1..(Len(inflight) - 1) |->
                       IF j < i THEN inflight[j] ELSE inflight[j + 1]]
    /\ burst' = NoBurst
    /\ UNCHANGED << settings, phase, userOps, hostOps >>

\* a handler that throws before its save: mappings[idx] is undefined
Throw(f) ==
    /\ TaskMayStart
    /\ phase = "ready"
    /\ userOps < MaxUserOps /\ OpsLeft
    /\ form' = f
    /\ userOps' = userOps + 1
    /\ last' = "TypeError"
    /\ burst' = NoBurst
    /\ UNCHANGED << settings, stored, phase, inflight, hostOps >>
    /\ UNCHANGED worldVars

(***************************************************************************)
(* The user: the command and the controls of the settings form.            *)
(***************************************************************************)

\* the user opens the settings tab: display()
OpenSettings ==
    /\ TaskMayStart
    /\ phase = "ready"
    /\ ~form.open
    /\ form' = Display(settings)
    /\ last' = "none"
    /\ burst' = NoBurst
    /\ UNCHANGED << settings, stored, phase, inflight, userOps, hostOps >>
    /\ UNCHANGED worldVars

\* the command "Toggle folder colors"
\* (variant with a slip: the continuation applies the styles whatever
\* enabled is)
ToggleCommandApplies ==
    Suspend([settings EXCEPT !.enabled = ~@], form, "applyAllStyles", FALSE)

ToggleCommand ==
    Suspend([settings EXCEPT !.enabled = ~@], form, "cmd", FALSE)

\* "Main folder font weight" onChange(v)
SetMainWeight(v) ==
    /\ form.open
    /\ Suspend([settings EXCEPT !.mainFolderFontWeight = ParseWeight(v)],
               form, "applyAllStyles", FALSE)

\* "Subfolder font weight" onChange(v)
SetSubWeight(v) ==
    /\ form.open
    /\ Suspend([settings EXCEPT !.subFolderFontWeight = ParseWeight(v)],
               form, "applyAllStyles", FALSE)

\* "Enable folder colors" onChange(v): v is the new state of the toggle
ToggleEnabled ==
    /\ form.open
    /\ LET v == ~form.enabledUI
       IN  Suspend([settings EXCEPT !.enabled = v], [form EXCEPT !.enabledUI = v],
                   IF v THEN "applyAllStyles" ELSE "removeStyles", TRUE)

\* "Show colored dot" onChange(v)
ToggleShowDot ==
    /\ form.open /\ form.enabledView
    /\ LET v == ~form.dotUI
       IN  Suspend([settings EXCEPT !.showDot = v], [form EXCEPT !.dotUI = v],
                   "applyAllStyles", FALSE)

\* the rows the form shows
Rows == IF form.open /\ form.enabledView THEN DOMAIN form.rows ELSE {}

\* the name field of row idx, on input
EditName(idx, v) ==
    /\ idx \in Rows
    /\ IF idx <= Len(settings.mappings)
           THEN Suspend([settings EXCEPT !.mappings[idx].name = Trim(v)],
                        form, "applyAllStyles", FALSE)
           ELSE Throw(form)

\* the background colour picker of row idx, on input
EditColor(idx, v) ==
    /\ idx \in Rows
    /\ IF idx <= Len(settings.mappings)
           THEN Suspend([settings EXCEPT !.mappings[idx].color = v],
                        form, "applyAllStyles", FALSE)
           ELSE Throw(form)

\* the "Use custom text color" checkbox of row idx, on change
ToggleUseTextColor(idx) ==
    /\ idx \in Rows
    /\ LET checked == ~form.rows[idx]
           f == [form EXCEPT !.rows[idx] = checked]
       IN  IF idx <= Len(settings.mappings)
               THEN Suspend([settings EXCEPT !.mappings[idx].useTextColor = Some(checked)],
                            f, "applyAllStyles", FALSE)
               ELSE Throw(f)

\* the text colour picker of row idx, on input
EditTextColor(idx, v) ==
    /\ idx \in Rows
    /\ IF idx <= Len(settings.mappings)
           THEN Suspend([settings EXCEPT !.mappings[idx].textColor = v],
                        form, "applyAllStyles", FALSE)
           ELSE Throw(form)

\* mappings.splice(idx, 1): nothing is removed past the end of the list
Splice(mappings, idx) ==
    IF idx > Len(mappings)
        THEN mappings
        ELSE [j \in 1..(Len(mappings) - 1) |->
                 IF j < idx THEN mappings[j] ELSE mappings[j + 1]]

\* the trash button of row idx
RemoveMapping(idx) ==
    /\ idx \in Rows
    /\ Suspend([settings EXCEPT !.mappings = Splice(@, idx)],
               form, "applyAllStyles", TRUE)

\* "+ Add"
AddMapping ==
    /\ form.open /\ form.enabledView
    /\ Len(settings.mappings) < MaxMappings
    /\ Suspend([settings EXCEPT !.mappings = Append(@, NewMapping)],
               form, "applyAllStyles", TRUE)

(***************************************************************************)
(* The host: it rebuilds the explorer tree as it likes.  A mutation below  *)
(* a watched element queues a record for each observer watching it.        *)
(***************************************************************************)
Notify(W, c) ==
    [W EXCEPT
        !.expPending = IF W.expLive[c] > 0 THEN @ \cup {c} ELSE @,
        !.wsPending = IF W.wsLive > 0 /\ W.ex[c].inDoc THEN @ \cup {"other"} ELSE @]

HostStep ==
    /\ TaskMayStart
    /\ hostOps < MaxHostOps /\ OpsLeft
    /\ hostOps' = hostOps + 1
    /\ last' = "none"
    /\ UNCHANGED << settings, stored, phase, inflight, form, userOps >>

\* a folder appears in the folder list of an explorer, attached to the
\* document or detached from it (the view lives on while its leaf is moved)
HostAddNode(c, k) ==
    /\ ex[c].hasFC
    /\ ~nodes[c][k].present
    /\ SetWorld(Notify([World EXCEPT !.nodes[c][k] = CleanNode], c))
    /\ burst' = BurstNotified(c)
    /\ HostStep

\* a folder disappears from the folder list of an explorer
HostRemoveNode(c, k) ==
    /\ ex[c].hasFC
    /\ nodes[c][k].present
    /\ SetWorld(Notify([World EXCEPT !.nodes[c][k] = NoNode], c))
    /\ burst' = BurstNotified(c)
    /\ HostStep

\* an explorer container is attached below .workspace: as the added node
\* itself (direct) or inside a larger added subtree; a container attached
\* for the first time comes with its folder list (withFC) or still empty
HostAddExplorer(c, direct, withFC) ==
    /\ ~ex[c].inDoc
    /\ withFC = TRUE \/ ~ex[c].hasFC
    /\ LET W == [World EXCEPT !.ex[c] = [inDoc |-> TRUE, hasFC |-> @.hasFC \/ withFC]]
       IN  SetWorld([W EXCEPT !.wsPending =
                        IF W.wsLive > 0 THEN @ \cup {IF direct THEN c ELSE "other"} ELSE @])
    /\ UNCHANGED burst
    /\ HostStep

\* the view fills an attached, still empty container: the folder list
\* appears, with its first folder
HostAddFolderList(c, k) ==
    /\ ex[c].inDoc /\ ~ex[c].hasFC
    /\ SetWorld(Notify([World EXCEPT !.ex[c].hasFC = TRUE, !.nodes[c][k] = CleanNode], c))
    /\ burst' = BurstNotified(c)
    /\ HostStep

\* an explorer container is detached from the document (its leaf is closed
\* or moved); the element and what is below it stay as they are
HostDetachExplorer(c) ==
    /\ ex[c].inDoc
    /\ SetWorld([World EXCEPT !.ex[c].inDoc = FALSE,
                              !.wsPending = IF wsLive > 0 THEN @ \cup {"other"} ELSE @])
    /\ UNCHANGED burst
    /\ HostStep

(***************************************************************************)
(* The observers' callbacks.                                               *)
(***************************************************************************)
WorkspaceCallback ==
    /\ wsPending # {}
    /\ SetWorld(workspaceCallback(World, settings))
    /\ last' = "workspaceCallback"
    /\ UNCHANGED << settings, stored, phase, inflight, form, userOps, hostOps, burst >>

InnerCallback(c) ==
    /\ c \in expPending
    /\ SetWorld(innerCallback(World, c, settings))
    /\ last' = "innerCallback"
    /\ burst' = BurstRerun(c)
    /\ UNCHANGED << settings, stored, phase, inflight, form, userOps, hostOps >>

Callbacks == WorkspaceCallback \/ \E c \in Containers : InnerCallback(c)

Next ==
    \/ LayoutReady
    \/ Unload
    \/ \E i \in 1..MaxInFlight : Resume(i)
    \/ OpenSettings
    \/ ToggleCommand
    \/ \E v \in WeightInputs : SetMainWeight(v)
    \/ \E v \in WeightInputs : SetSubWeight(v)
    \/ ToggleEnabled
    \/ ToggleShowDot
    \/ \E idx \in 1..MaxMappings, v \in NameInputs : EditName(idx, v)
    \/ \E idx \in 1..MaxMappings, v \in ColorInputs : EditColor(idx, v)
    \/ \E idx \in 1..MaxMappings : ToggleUseTextColor(idx)
    \/ \E idx \in 1..MaxMappings, v \in TextColorInputs : EditTextColor(idx, v)
    \/ \E idx \in 1..MaxMappings : RemoveMapping(idx)
    \/ AddMapping
    \/ \E c \in Containers, k \in Kinds : HostAddNode(c, k)
    \/ \E c \in Containers, k \in Kinds : HostRemoveNode(c, k)
    \/ \E c \in Containers, direct \in BOOLEAN, withFC \in BOOLEAN : HostAddExplorer(c, direct, withFC)
    \/ \E c \in Containers, k \in Kinds : HostAddFolderList(c, k)
    \/ \E c \in Containers : HostDetachExplorer(c)
    \/ WorkspaceCallback
    \/ \E c \in Containers : InnerCallback(c)

Spec == Init /\ [][Next]_vars

\* The plugin left alone with the host: after startup the user does no
\* more than run the toggle command; the form is not used.
ResyncNext ==
    \/ LayoutReady
    \/ Unload
    \/ ToggleCommand
    \/ \E i \in 1..MaxInFlight : Resume(i)
    \/ \E c \in Containers, k \in Kinds : HostAddNode(c, k)
    \/ \E c \in Containers, k \in Kinds : HostRemoveNode(c, k)
    \/ \E c \in Containers, direct \in BOOLEAN, withFC \in BOOLEAN : HostAddExplorer(c, direct, withFC)
    \/ \E c \in Containers, k \in Kinds : HostAddFolderList(c, k)
    \/ \E c \in Containers : HostDetachExplorer(c)
    \/ WorkspaceCallback
    \/ \E c \in Containers : InnerCallback(c)

\* The event loop runs every queued microtask: while records are queued, a
\* callback is delivered.  Nothing is assumed of the user, of the host or
\* of the saves.
ResyncSpec == Init /\ [][ResyncNext]_vars /\ WF_vars(Callbacks)

(***************************************************************************)
(* What the claims speak of.                                               *)
(***************************************************************************)
\* the folder nodes in the document: those of the open explorers
NodesInDoc(W) ==
    {p \in Containers \X Kinds : W.ex[p[1]].inDoc /\ W.nodes[p[1]][p[2]].present}

Node(W, p) == W.nodes[p[1]][p[2]]

\* a node carries none of the four attributes
Unstyled(n) ==
    /\ n.tabColor = None
    /\ n.textColor = None
    /\ ~n.coloredFolder
    /\ ~n.dotEnabled

\* no workspace-level and no per-container observer is connected
NoObservers(W) ==
    /\ ~W.observer
    /\ W.wsLive = 0
    /\ W.explorerObservers = {}
    /\ \A c \in Containers : W.expLive[c] = 0

\* the index of the mapping a node's text selects, 0 for none
Selected(p) == Find(settings.mappings, Trim(TextContent(p[2])))

\* the names of the list that equal the trimmed text of the node
SameName(p) ==
    {i \in 1..Len(settings.mappings) : settings.mappings[i].name = Trim(TextContent(p[2]))}

AfterApply == last = "applyAllStyles"

\* The font weight a folder title is shown with: the style sheet reads it
\* from the custom properties of the document root, the main weight for a
\* top-level folder and the sub weight for a nested one.
FontWeightOf(W, p) ==
    IF KindSeq[p[2]].top THEN W.rootStyle.main ELSE W.rootStyle.sub

(***************************************************************************)
(* C1.  Disabled short-circuit: whenever applyAllStyles has run with       *)
(* enabled = false, the state is the one removeStyles leaves: no folder    *)
(* node in the document carries a colour, a text colour, the               *)
(* colored-folder class or the dot class, and no observer is connected.    *)
(* The code has no such check: C1_DisabledShortCircuit is violated.        *)
(***************************************************************************)
C1_DisabledShortCircuit ==
    (AfterApply /\ ~settings.enabled) =>
        /\ \A p \in NodesInDoc(World) : Unstyled(Node(World, p))
        /\ NoObservers(World)

(***************************************************************************)
(* C2.  No-match clearing: after applyAllStyles with enabled = true, every *)
(* folder node in the document whose trimmed text is the name of no        *)
(* mapping has neither --tab-color nor --text-color, also when the list is *)
(* empty.  The code returns early on an empty list:                        *)
(* C2_NoMatchCleared is violated.                                          *)
(***************************************************************************)
C2_NoMatchCleared ==
    (AfterApply /\ settings.enabled) =>
        \A p \in NodesInDoc(World) :
            SameName(p) = {} =>
                Node(World, p).tabColor = None /\ Node(World, p).textColor = None

(***************************************************************************)
(* C3.  Matching rule: after applyAllStyles with enabled = true, a folder  *)
(* node in the document is coloured by mapping m of the list exactly when  *)
(* its text, trimmed, equals m.name character for character: the first     *)
(* mapping of that name gives the node its --tab-color, and a node whose   *)
(* trimmed text is the name of none of the mappings of the list carries no *)
(* colour.  " Design " is matched by a mapping named "Design", "design"    *)
(* is not.                                                                 *)
(***************************************************************************)
C3_MatchingRule ==
    (AfterApply /\ settings.enabled) =>
        \A p \in NodesInDoc(World) :
            /\ \A i \in SameName(p) :
                  (\A j \in SameName(p) : i <= j) =>
                      /\ Node(World, p).coloredFolder
                      /\ Node(World, p).tabColor = settings.mappings[i].color
            /\ (settings.mappings # << >> /\ SameName(p) = {}) =>
                  /\ ~Node(World, p).coloredFolder
                  /\ Node(World, p).tabColor = None

\* " Design " carries the colour of the mapping "Design", "design" carries none
C3_Witness ==
    /\ AfterApply /\ settings.enabled
    /\ \E i \in 1..Len(settings.mappings) :
          /\ settings.mappings[i].name = Design
          /\ <<"e1", 2>> \in NodesInDoc(World)
          /\ TextContent(2) = DesignPadded
          /\ nodes["e1"][2].tabColor = settings.mappings[i].color
    /\ <<"e1", 3>> \in NodesInDoc(World)
    /\ TextContent(3) = designLower
    /\ nodes["e1"][3].tabColor = None

(***************************************************************************)
(* C4.  First match wins: after applyAllStyles, a node in the document     *)
(* whose trimmed text is the name of two or more mappings has the          *)
(* --tab-color and the text colour setting of the one with the smallest    *)
(* index.                                                                  *)
(***************************************************************************)
C4_FirstMatchWins ==
    AfterApply =>
        \A p \in NodesInDoc(World) :
            Cardinality(SameName(p)) >= 2 =>
                LET i == CHOOSE x \in SameName(p) : \A y \in SameName(p) : x <= y
                    m == settings.mappings[i]
                IN  /\ Node(World, p).tabColor = m.color
                    /\ Node(World, p).textColor =
                           IF Truthy(m.useTextColor) THEN m.textColor ELSE None

\* two mappings of one name that differ in colour, and a node of that name
C4_Witness ==
    /\ AfterApply
    /\ \E p \in NodesInDoc(World) :
          \E i, j \in SameName(p) :
              /\ i < j
              /\ settings.mappings[i].color # settings.mappings[j].color
              /\ Node(World, p).tabColor = settings.mappings[i].color

C6_Idempotent ==
    AfterApply => applyAllStyles(World, settings) = World

\* the first call styled a node and connected both kinds of observer
C6_Witness ==
    /\ AfterApply
    /\ observer /\ wsLive = 1
    /\ explorerObservers # {}
    /\ \E p \in NodesInDoc(World) : ~Unstyled(Node(World, p))
    /\ \E p \in NodesInDoc(World) : Node(World, p).dotEnabled /\ Selected(p) = 0

(***************************************************************************)
(* C7.  The dot follows showDot: after applyAllStyles with enabled = true, *)
(* every folder title of the document has the dot class if and only if     *)
(* showDot is true, matched or not.  applyMappingsToDOM takes the class    *)
(* from every unmatched title: C7_DotFollowsShowDot is violated.           *)
(***************************************************************************)
C7_DotFollowsShowDot ==
    (AfterApply /\ settings.enabled) =>
        \A p \in NodesInDoc(World) : Node(World, p).dotEnabled = settings.showDot

(***************************************************************************)
(* C8.  Text colour rule: after applyAllStyles, a node of the document     *)
(* that mapping m matches has --text-color = m.textColor when              *)
(* m.useTextColor is true and no --text-color when it is not, whatever an  *)
(* earlier run had set.                                                    *)
(***************************************************************************)
C8_TextColourRule ==
    AfterApply =>
        \A p \in NodesInDoc(World) :
            Selected(p) # 0 =>
                LET m == settings.mappings[Selected(p)]
                IN  Node(World, p).textColor =
                        IF m.useTextColor = Some(TRUE) THEN m.textColor ELSE None

\* the checkbox of a mapping was unticked, and the node it matches, which
\* had the text colour before, has none now
C8_Witness ==
    /\ AfterApply
    /\ \E p \in NodesInDoc(World) :
          /\ Selected(p) # 0
          /\ settings.mappings[Selected(p)].useTextColor = Some(FALSE)
          /\ Node(World, p).coloredFolder
          /\ Node(World, p).textColor = None

(***************************************************************************)
(* C9.  Dynamic resync: while enabled, when the host has added a folder    *)
(* node to the folder list of an observed container (the record is queued  *)
(* for the container's observer) and a mapping of the list matches the     *)
(* node, as {name: "Projects", color: "#e74c3c"} matches a new node        *)
(* "Projects", the node comes to carry that mapping's colour by the        *)
(* observer's callback alone: no task of the user or the form runs before  *)
(* the callback does.                                                      *)
(***************************************************************************)
AddedToObserved(p) ==
    /\ settings.enabled
    /\ p[1] \in explorerObservers /\ p[1] \in expPending
    /\ nodes[p[1]][p[2]].present
    /\ Selected(p) # 0
    /\ nodes[p[1]][p[2]].tabColor # settings.mappings[Selected(p)].color

Resynced(p) ==
    /\ nodes[p[1]][p[2]].present
    /\ Selected(p) # 0
    /\ nodes[p[1]][p[2]].coloredFolder
    /\ nodes[p[1]][p[2]].tabColor = settings.mappings[Selected(p)].color

C9_DynamicResync ==
    \A p \in Containers \X Kinds : AddedToObserved(p) ~> Resynced(p)

\* the node "Projects", which the host added to the open explorer, has the
\* colour #e74c3c from the callback of the explorer's observer
C9_Witness ==
    /\ last = "innerCallback"
    /\ settings.enabled
    /\ TextContent(1) = Projects
    /\ <<"e1", 1>> \in NodesInDoc(World)
    /\ Selected(<<"e1", 1>>) # 0
    /\ settings.mappings[Selected(<<"e1", 1>>)].color = Red
    /\ nodes["e1"][1].tabColor = "#e74c3c"

(***************************************************************************)
(* C10.  New containers get subscribed: while the plugin is enabled and    *)
(* its workspace-level observer is connected, once nothing is queued and   *)
(* no handler is in flight (so that nothing more will run by itself),      *)
(* every explorer container of the document that has a folder list has its *)
(* own subscription and its matching nodes are coloured.  The workspace    *)
(* callback looks at the added node only and subscribes only a container   *)
(* that already holds its folder list: C10_NewContainersSubscribed is      *)
(* violated.                                                               *)
(***************************************************************************)
C10_NewContainersSubscribed ==
    (phase = "ready" /\ settings.enabled /\ observer /\ TaskMayStart /\ inflight = << >>) =>
        \A c \in OpenExplorers(World) :
            ex[c].hasFC =>
                /\ c \in explorerObservers
                /\ \A k \in Kinds :
                      (nodes[c][k].present /\ Selected(<<c, k>>) # 0) => Resynced(<<c, k>>)

(***************************************************************************)
(* C11.  Teardown is final: once onunload has run, nothing that was        *)
(* pending at that moment calls applyAllStyles or connects an observer     *)
(* afterwards.  onunload cancels nothing that waits for a save: the        *)
(* continuation of a handler suspended at its await runs after the         *)
(* teardown and applies the styles again: C11_TeardownIsFinal is violated. *)
(***************************************************************************)
C11_TeardownIsFinal ==
    phase = "unloaded" => (last # "applyAllStyles" /\ NoObservers(World))

(***************************************************************************)
(* C12.  removeStyles stops every subscription and is safe on a clean      *)
(* state: in the state removeStyles leaves, the workspace-level observer   *)
(* is disconnected and unset, the subscription map is empty and no         *)
(* observer of a folder list is connected; a second removeStyles changes   *)
(* nothing, and neither does removeStyles in a state where applyAllStyles  *)
(* has never run.                                                          *)
(***************************************************************************)
NeverApplied == rootStyle.main = Undefined

C12_RemoveStopsAll ==
    /\ last = "removeStyles" => (NoObservers(World) /\ removeStyles(World) = World)
    /\ NeverApplied => removeStyles(World) = World

\* removeStyles has run where both kinds of observer had been connected
\* and a folder had been coloured
C12_Witness ==
    /\ last = "removeStyles"
    /\ ~NeverApplied
    /\ ~observer /\ wsLive = 0
    /\ explorerObservers = {} /\ expLive["e1"] = 0
    /\ settings.enabled /\ settings.mappings # << >>
    /\ phase = "unloaded"

(***************************************************************************)
(* C13.  Toggle command: the command flips settings.enabled when it is     *)
(* invoked and touches nothing else; when it completes as the only handler *)
(* in flight, with the settings as it left them, the stored record is the  *)
(* settings with the flipped value, and the panel is in the applied state  *)
(* (applyAllStyles has run: every matching folder is coloured, the         *)
(* workspace observer is connected, every open explorer with a folder list *)
(* is subscribed) if enabled is true, and in the removed state (no folder  *)
(* of the document styled, no observer) if it is false.  Under ResyncSpec  *)
(* the command is the only handler, so the settings change only by its     *)
(* flip and two completed toggles give back the enabled value they started *)
(* from, with the panel state of that value.                               *)
(***************************************************************************)
\* the step that invokes the command
ToggleInvoked ==
    /\ Len(inflight') = Len(inflight) + 1
    /\ inflight'[Len(inflight')].then = "cmd"

\* the step in which the command completes, alone in flight
ToggleCompletes ==
    /\ Len(inflight) = 1 /\ inflight' = << >>
    /\ inflight[1].then = "cmd"
    /\ inflight[1].data = settings

\* the panel state that goes with the value of enabled
PanelFollows(W, s) ==
    IF s.enabled
        THEN /\ W.observer /\ W.wsLive = 1
             /\ \A c \in OpenExplorers(W) : W.ex[c].hasFC => c \in W.explorerObservers
             /\ applyAllStyles(W, s) = W
        ELSE /\ \A p \in NodesInDoc(W) : Unstyled(Node(W, p))
             /\ NoObservers(W)

C13_ToggleCommand ==
    [][ /\ ToggleInvoked =>
              /\ settings' = [settings EXCEPT !.enabled = ~@]
              /\ World' = World /\ stored' = stored
        /\ settings' # settings => ToggleInvoked
        /\ ToggleCompletes =>
              /\ settings' = settings
              /\ stored' = settings'
              /\ last' = IF settings.enabled THEN "applyAllStyles" ELSE "removeStyles"
              /\ PanelFollows(World', settings') ]_vars

\* two toggles have completed: enabled is true again and stored, the styles
\* are applied again
C13_Witness ==
    /\ userOps = 2 /\ inflight = << >>
    /\ phase = "ready"
    /\ settings.enabled /\ stored = settings
    /\ last = "applyAllStyles"
    /\ PanelFollows(World, settings)
    /\ \E p \in NodesInDoc(World) : Node(World, p).coloredFolder

(***************************************************************************)
(* C14.  Font-weight scenario: after applyAllStyles every top-level folder *)
(* of the document has the main weight and every nested folder the sub     *)
(* weight, where the main weight is mainFolderFontWeight, or 700 when it   *)
(* is unset, and the sub weight is subFolderFontWeight, or 500 when it is  *)
(* unset: 700 and 500 with the settings 700 / 500.                         *)
(***************************************************************************)
C14_FontWeights ==
    AfterApply =>
        \A p \in NodesInDoc(World) :
            FontWeightOf(World, p) =
                IF KindSeq[p[2]].top
                    THEN (IF settings.mainFolderFontWeight = Undefined
                              THEN Some(700) ELSE settings.mainFolderFontWeight)
                    ELSE (IF settings.subFolderFontWeight = Undefined
                              THEN Some(500) ELSE settings.subFolderFontWeight)

\* with 700 / 500 set, a top-level folder has 700 and a nested folder 500
C14_Witness ==
    /\ AfterApply
    /\ settings.mainFolderFontWeight = Some(700)
    /\ settings.subFolderFontWeight = Some(500)
    /\ \E p, q \in NodesInDoc(World) :
          /\ KindSeq[p[2]].top /\ FontWeightOf(World, p) = Some(700)
          /\ ~KindSeq[q[2]].top /\ FontWeightOf(World, q) = Some(500)

(***************************************************************************)
(* C15.  Valid settings only: in every reachable state no mapping of       *)
(* settings.mappings has the empty name.  The name field stores v.trim()   *)
(* as it is, the empty string included: C15_NoEmptyName is violated.       *)
(***************************************************************************)
C15_NoEmptyName ==
    \A i \in 1..Len(settings.mappings) : settings.mappings[i].name # Empty

(***************************************************************************)
(* C16.  Font weights are independent of the enable flag: once the layout  *)
(* is ready and no handler is in flight, every folder of the document has  *)
(* the configured weight (or the default), whether enabled is true or      *)
(* false.  At startup with enabled = false applyAllStyles is not called    *)
(* and the weights are not set: C16_FontWeightsAlways is violated.         *)
(***************************************************************************)
C16_FontWeightsAlways ==
    (phase = "ready" /\ inflight = << >>) =>
        \A p \in NodesInDoc(World) :
            FontWeightOf(World, p) =
                IF KindSeq[p[2]].top
                    THEN Some(OrElse(settings.mainFolderFontWeight, 700))
                    ELSE Some(OrElse(settings.subFolderFontWeight, 500))

(***************************************************************************)
(* C17.  Load merges stored values over defaults: when onload has read the *)
(* stored record, whatever the record (none, fields missing, a field the   *)
(* plugin does not know), every field of the settings that the record      *)
(* holds has the stored value and every other one has the value of         *)
(* DEFAULT_SETTINGS.                                                       *)
(***************************************************************************)
KnownFields == DOMAIN DEFAULT_SETTINGS

C17_LoadMerges ==
    last = "onload" =>
        /\ KnownFields \subseteq DOMAIN settings
        /\ \A f \in KnownFields :
              settings[f] = IF f \in DOMAIN stored THEN stored[f] ELSE DEFAULT_SETTINGS[f]

\* a record with a field missing, a field present and an unknown field
C17_Witness ==
    /\ last = "onload"
    /\ "enabled" \notin DOMAIN stored /\ settings.enabled = DEFAULT_SETTINGS.enabled
    /\ "showDot" \in DOMAIN stored /\ settings.showDot = FALSE
    /\ settings.showDot # DEFAULT_SETTINGS.showDot
    /\ DOMAIN stored \ KnownFields # {}

(***************************************************************************)
(* C18.  Documented defaults: with nothing stored, the settings after load *)
(* are enabled = false, showDot = false, the weights 700 and 500 and no    *)
(* mapping.  DEFAULT_SETTINGS has enabled = true, showDot = true and two   *)
(* mappings: C18_DocumentedDefaults is violated.                           *)
(***************************************************************************)
C18_DocumentedDefaults ==
    (last = "onload" /\ stored = NoData) =>
        /\ settings.enabled = FALSE
        /\ settings.showDot = FALSE
        /\ settings.mainFolderFontWeight = Some(700)
        /\ settings.subFolderFontWeight = Some(500)
        /\ settings.mappings = << >>

(***************************************************************************)
(* C19.  The panel never lags the settings under overlapping handlers:     *)
(* once no handler of the command or of the form is in flight, the panel   *)
(* is the one of the current settings.  Stated for the case enabled =      *)
(* true, with the host leaving the tree alone: the workspace observer is   *)
(* connected and every folder of the document that a mapping of the        *)
(* current list matches has that mapping's colour.  The continuation of    *)
(* the form's enable toggle acts on the value it was called with, not on   *)
(* the current one: C19_PanelNeverLags is violated.                        *)
(***************************************************************************)
C19_PanelNeverLags ==
    (phase = "ready" /\ inflight = << >> /\ hostOps = 0 /\ settings.enabled) =>
        /\ observer
        /\ \A p \in NodesInDoc(World) : Selected(p) # 0 => Resynced(p)

(***************************************************************************)
(* C20.  Debounce coalescing: the notifications of one burst for a         *)
(* container cause one re-run of the mapping application for it: at no     *)
(* time has the observer's callback re-applied the mappings more than once *)
(* for the burst under way.  The observer's callback applies the mappings  *)
(* at once, for every notification, and nothing is scheduled, cancelled or *)
(* rescheduled: C20_DebounceCoalescing is violated.                        *)
(***************************************************************************)
C20_DebounceCoalescing == burst.runs <= 1

(***************************************************************************)
(* C21.  Resync equals full apply: when the callback of the observer of    *)
(* container c has run, with no handler in flight, every folder node of c  *)
(* has the attributes that applyAllStyles with the same settings would     *)
(* give it.  The callback                                                  *)
(* calls applyMappingsToDOM alone, which returns at once on an empty       *)
(* mapping list, while applyAllStyles first sets the dot class of every    *)
(* title: with showDot = true and no mapping a node added since the last   *)
(* full apply stays without the dot.  C21_ResyncEqualsApply is violated.   *)
(***************************************************************************)
\* the step in which the callback of the observer of c runs
RerunOf(c) ==
    /\ c \in expPending /\ c \notin expPending'
    /\ last' = "innerCallback"

C21_ResyncEqualsApply ==
    [][ \A c \in Containers :
            (RerunOf(c) /\ ex[c].inDoc /\ inflight = << >>) =>
                nodes'[c] = applyAllStyles(World', settings').nodes[c] ]_vars

(***************************************************************************)
(* C22.  Frame of applying styles: a step that ends with applyAllStyles,   *)
(* removeStyles or an observer's callback leaves the settings as they are  *)
(* (enabled, showDot, the weights, the mapping list) and leaves the        *)
(* explorer containers and the set of folder nodes as they are; only       *)
(* attributes of the nodes, the root properties and the plugin's observers *)
(* change.                                                                 *)
(***************************************************************************)
PluginCalls == {"applyAllStyles", "removeStyles", "workspaceCallback", "innerCallback"}

C22_Frame ==
    [][ last' \in PluginCalls =>
            /\ settings' = settings
            /\ ex' = ex
            /\ \A c \in Containers, k \in Kinds :
                  nodes'[c][k].present = nodes[c][k].present ]_vars

\* removeStyles has run on a panel with folders: the nodes are there, the
\* mapping list is still the one it was
C22_Witness ==
    /\ last = "removeStyles"
    /\ phase = "ready"
    /\ ~settings.enabled
    /\ Len(settings.mappings) = 2
    /\ Cardinality(NodesInDoc(World)) >= 2

(***************************************************************************)
(* C23.  Persist on every mutation: every step that changes the settings   *)
(* issues a save of the changed settings, and when the last of the issued  *)
(* saves completes the stored record is the in-memory settings.  The saves *)
(* are not ordered: when an earlier save completes after a later one, the  *)
(* record it wrote, with the settings as they were when it was issued, is  *)
(* the one that stays.  C23_PersistOnMutation is violated.                 *)
(***************************************************************************)
C23_PersistOnMutation ==
    [][ /\ settings' # settings =>
              /\ Len(inflight') = Len(inflight) + 1
              /\ inflight'[Len(inflight')].data = settings'
        /\ (inflight # << >> /\ inflight' = << >>) => stored' = Json(settings') ]_vars

(***************************************************************************)
(* C24.  Missing targets are skipped silently: applyAllStyles,             *)
(* removeStyles and the observers' callbacks run to their end in every     *)
(* state of the DOM, and what is absent is passed over while the rest is   *)
(* processed.  After applyAllStyles the workspace observer is connected    *)
(* whatever explorers are open, an open explorer without a folder list is  *)
(* not subscribed, every open explorer with a folder list is subscribed    *)
(* and, unless the mapping list is empty, every folder of the document     *)
(* that a mapping matches is coloured; after removeStyles no observer is   *)
(* left; after the workspace callback no record is queued for it; after    *)
(* the callback of a container's observer, in the document or removed from *)
(* it, the matching folders of that container are coloured.  The only      *)
(* error of a run is the one of a handler of the open form.                *)
(***************************************************************************)
C24_MissingTargetsSkipped ==
    /\ last = "TypeError" => form.open
    /\ \A c \in Containers : ~ex[c].hasFC => c \notin explorerObservers
    /\ AfterApply =>
          /\ observer /\ wsLive = 1
          /\ \A c \in OpenExplorers(World) : ex[c].hasFC => c \in explorerObservers
          /\ \A p \in NodesInDoc(World) : Selected(p) # 0 => Resynced(p)
    /\ last = "removeStyles" => NoObservers(World)
    /\ last = "workspaceCallback" => wsPending = {}
    /\ (last = "innerCallback" /\ burst.c \in Containers) =>
          \A k \in Kinds :
              (nodes[burst.c][k].present /\ Selected(<<burst.c, k>>) # 0)
                  => Resynced(<<burst.c, k>>)

\* applyAllStyles has run with an explorer open that has no folder list
\* yet: that one is passed over, the other is subscribed and coloured
C24_Witness ==
    /\ AfterApply
    /\ ex["e2"].inDoc /\ ~ex["e2"].hasFC
    /\ "e2" \notin explorerObservers
    /\ ex["e1"].inDoc /\ "e1" \in explorerObservers
    /\ \E k \in Kinds : nodes["e1"][k].present /\ nodes["e1"][k].coloredFolder

(***************************************************************************)
(* C25.  Bounded subscriptions: in every reachable state at most one       *)
(* observer of .workspace is connected, and it is this.observer; each      *)
(* explorer container has at most one connected observer of its folder     *)
(* list, and it is the one in this.explorerObservers.  Calls of            *)
(* applyAllStyles do not pile up observers.                                *)
(***************************************************************************)
C25_BoundedSubscriptions ==
    /\ wsLive = IF observer THEN 1 ELSE 0
    /\ \A c \in Containers : expLive[c] = IF c \in explorerObservers THEN 1 ELSE 0

\* applyAllStyles has run again, after the one at layout-ready, with the
\* explorer observed all along
C25_Witness ==
    /\ AfterApply
    /\ phase = "ready"
    /\ userOps = 1 /\ inflight = << >>
    /\ "theme" \in DOMAIN stored /\ "enabled" \in DOMAIN stored
    /\ settings.enabled
    /\ observer
    /\ wsLive = 1 /\ expLive["e1"] = 1

(***************************************************************************)
(* C26.  Row handlers act on their own mapping: a handler of the row that  *)
(* displays mapping m reaches m through the index the row was rendered     *)
(* with; whatever the interleaving, it never reads past the end of the     *)
(* list, so no handler ends in a TypeError.  The rows are re-rendered only *)
(* after the save of a removal, and until then their indices are those of  *)
(* the list before the removal: C26_RowHandlersOwnMapping is violated.     *)
(***************************************************************************)
C26_RowHandlersOwnMapping == last # "TypeError"

(***************************************************************************)
(* C27.  No self-triggering resync: a step that ends with applyAllStyles   *)
(* or removeStyles queues no record for any of the plugin's observers, and *)
(* a callback of an observer takes the records it was called for and       *)
(* queues none, so every callback leaves fewer records queued than it      *)
(* found; whenever records are queued, the callbacks run until none is     *)
(* and the plugin is idle, with no callback left to run before the next    *)
(* mutation by the host or action of the user.                             *)
(***************************************************************************)
Queued == Cardinality(wsPending) + Cardinality(expPending)

C27_NoSelfTrigger ==
    /\ [][ /\ last' \in PluginCalls =>
                 (wsPending' \subseteq wsPending /\ expPending' \subseteq expPending)
           /\ last' \in {"workspaceCallback", "innerCallback"} => Queued' < Queued ]_vars
    /\ (~TaskMayStart) ~> (TaskMayStart /\ ~ENABLED Callbacks)

\* the host has mutated the folder list twice, the callback has run each
\* time, nothing is queued
C27_Witness ==
    /\ last = "innerCallback"
    /\ hostOps = MaxHostOps
    /\ burst.runs = 2
    /\ Queued = 0
    /\ settings.enabled /\ observer

(***************************************************************************)
(* C28.  Form and synchroniser agree on useTextColor: when the form has    *)
(* been rendered from the current settings and no handler is in flight,    *)
(* with the plugin enabled and the styles applied, the checkbox "Use       *)
(* custom text color" of row i is checked if and only if the folders of    *)
(* the document that mapping i colours carry its text colour.  For a       *)
(* mapping without the field the form shows the box checked                *)
(* (useTextColor ?? true) while applyMappingsToDOM takes the missing field *)
(* as false: C28_FormAgreesOnTextColor is violated.                        *)
(***************************************************************************)
C28_FormAgreesOnTextColor ==
    (/\ form = Display(settings)
     /\ settings.enabled /\ observer
     /\ inflight = << >>) =>
        \A p \in NodesInDoc(World) :
            (Selected(p) # 0 /\ Resynced(p)) =>
                (form.rows[Selected(p)] <=>
                    Node(World, p).textColor = settings.mappings[Selected(p)].textColor)

=============================================================================
